---- MODULE Spec2Model ----
(***************************************************************************)
(* benchmark_linreg.ipynb: an ordinary least squares fit computed three    *)
(* ways on one dataset (normal equations, statsmodels OLS, scikit-learn    *)
(* LinearRegression), each followed by a %%timeit loop.                    *)
(*                                                                         *)
(* Numbers.  The arrays hold IEEE doubles.  A double is modelled by the    *)
(* rational it stands for, <<numerator, denominator>> in lowest terms, and *)
(* NaN by its own value.  Every dataset of the model holds small integers, *)
(* so sums and products of the data are exact in double precision too.     *)
(* The one place where rounding decides WHAT happens, and not only the     *)
(* last digits of a value, is the zero-pivot test of the LU factorisation  *)
(* behind np.linalg.solve: see LinalgSolve.                                *)
(***************************************************************************)
EXTENDS Integers, Sequences, FiniteSets, TLC

\* ------------------------------------------------------------- bounds
MaxRows == 2
MaxPredictors == 1
MaxY == 1
MaxTimeitLoops == 2

\* ---------------------------------------------------------- rationals
Abs(i) == IF i < 0 THEN -i ELSE i

RECURSIVE GCD(_, _)
GCD(a, b) == IF b = 0 THEN a ELSE GCD(b, a % b)

Q(n, d) ==
    LET s == IF d < 0 THEN -1 ELSE 1
        g == GCD(Abs(n), Abs(d))
    IN  <<(s * n) \div g, (s * d) \div g>>

Zero == <<0, 1>>
One == <<1, 1>>
FromInt(i) == <<i, 1>>
\* An array: the function made explicit as a tuple of evaluated entries.
Arr(f) == f \o <<>>
QAdd(a, b) == Q(a[1] * b[2] + b[1] * a[2], a[2] * b[2])
QSub(a, b) == Q(a[1] * b[2] - b[1] * a[2], a[2] * b[2])
QMul(a, b) == Q(a[1] * b[1], a[2] * b[2])
QDiv(a, b) == Q(a[1] * b[2], a[2] * b[1])
QAbs(a) == <<Abs(a[1]), a[2]>>
QLeq(a, b) == a[1] * b[2] <= b[1] * a[2]
QMin(a, b) == IF QLeq(a, b) THEN a ELSE b

RECURSIVE QSum(_)
QSum(s) == IF Len(s) = 0 THEN Zero ELSE QAdd(Head(s), QSum(Tail(s)))

RECURSIVE IsPowerOfTwo(_)
IsPowerOfTwo(d) == d = 1 \/ (d % 2 = 0 /\ IsPowerOfTwo(d \div 2))

\* A rational of small numerator is a double exactly when its denominator is a
\* power of two.
IsDyadic(a) == IsPowerOfTwo(a[2])

\* ------------------------------------------------------- numpy arrays
Dot(u, v) == QSum(Arr([i \in 1..Len(u) |-> QMul(u[i], v[i])]))
Column(X, j) == Arr([r \in 1..Len(X) |-> X[r][j]])
NumCols(X) == Len(X[1])
\* X.T @ X
Gram(X) ==
    Arr([i \in 1..NumCols(X) |->
            Arr([j \in 1..NumCols(X) |-> Dot(Column(X, i), Column(X, j))])])
\* X.T @ y (the lengths agree)
MomentVector(X, yv) == Arr([i \in 1..NumCols(X) |-> Dot(Column(X, i), yv)])
\* X @ b
MatVec(X, b) == Arr([r \in 1..Len(X) |-> Dot(X[r], b)])
Mean(v) == QDiv(QSum(v), FromInt(Len(v)))
\* (mutant) the mean is not subtracted
Uncentered(v) == v
Centered(v) == LET m == Mean(v) IN Arr([i \in 1..Len(v) |-> QSub(v[i], m)])
SumOfSquares(v) == Dot(v, v)
\* (mutant) the column of ones appended after the predictors
HstackOnesLast(D) ==
    Arr([r \in 1..Len(D) |-> [c \in 1..Len(D[r]) |-> FromInt(D[r][c])] \o <<One>>])

\* np.hstack([np.ones((X.shape[0], 1)), X])
HstackOnes(D) ==
    Arr([r \in 1..Len(D) |-> <<One>> \o [c \in 1..Len(D[r]) |-> FromInt(D[r][c])]])
AsFloats(t) == Arr([i \in 1..Len(t) |-> FromInt(t[i])])

\* ------------------------------------------------------- float values
Unset == [kind |-> "unset", q |-> Zero]
NaN == [kind |-> "nan", q |-> Zero]
Num(a) == [kind |-> "num", q |-> a]
NoVector == [kind |-> "unset", v |-> <<>>]
Vector(x) == [kind |-> "vec", v |-> x]

\* --------------------------------------------------------------- LAPACK
SwapRows(M, a, b) ==
    Arr([i \in 1..Len(M) |-> IF i = a THEN M[b] ELSE IF i = b THEN M[a] ELSE M[i]])

\* (mutant) the multiple of the pivot row is added
RowAxpyAdded(row, m, prow) == Arr([c \in 1..Len(row) |-> QAdd(row[c], QMul(m, prow[c]))])

\* row - m * prow
RowAxpy(row, m, prow) == Arr([c \in 1..Len(row) |-> QSub(row[c], QMul(m, prow[c]))])

\* idamax: the first row at or below r with the largest |M[i][c]|
PivotRow(M, r, c) ==
    CHOOSE i \in r..Len(M) :
        \A l \in r..Len(M) :
            /\ QLeq(QAbs(M[l][c]), QAbs(M[i][c]))
            /\ (QAbs(M[l][c]) = QAbs(M[i][c]) => i <= l)

\* [A | b]
Augment(A, b) == Arr([i \in 1..Len(A) |-> Append(A[i], b[i])])

\* dgetrf on the augmented system, from step j: LU with partial pivoting, in exact
\* arithmetic.  info is 0, or the step whose pivot is zero; exact says that every
\* multiplier formed so far is a double, so that the doubles LAPACK computes are
\* these very numbers.
RECURSIVE Getrf(_, _, _, _)
Getrf(M, j, p, exact) ==
    IF j > p THEN [lu |-> M, info |-> 0, exact |-> exact]
    ELSE LET r == PivotRow(M, j, j) IN
         IF M[r][j] = Zero THEN [lu |-> M, info |-> j, exact |-> exact]
         ELSE LET S == SwapRows(M, j, r)
                  mult == Arr([i \in 1..p |-> IF i > j THEN QDiv(S[i][j], S[j][j]) ELSE Zero])
                  E == Arr([i \in 1..p |-> IF i > j THEN RowAxpy(S[i], mult[i], S[j]) ELSE S[i]])
              IN  Getrf(E, j + 1, p, exact /\ \A i \in 1..p : IsDyadic(mult[i]))

\* (mutant) back substitution that takes the diagonal of U for 1
RECURSIVE GetrsUnitDiagonal(_, _, _, _)
GetrsUnitDiagonal(U, i, p, x) ==
    IF i = 0 THEN x
    ELSE LET s == QSum(Arr([c \in 1..(p - i) |-> QMul(U[i][i + c], x[i + c])]))
         IN  GetrsUnitDiagonal(U, i - 1, p, Arr([x EXCEPT ![i] = QSub(U[i][p + 1], s)]))

\* dgetrs: back substitution on the factored system, rows i down to 1
RECURSIVE Getrs(_, _, _, _)
Getrs(U, i, p, x) ==
    IF i = 0 THEN x
    ELSE LET s == QSum(Arr([c \in 1..(p - i) |-> QMul(U[i][i + c], x[i + c])]))
         IN  Getrs(U, i - 1, p, Arr([x EXCEPT ![i] = QDiv(QSub(U[i][p + 1], s), U[i][i])]))

\* Reduced row echelon form of M over its first p columns, from row r and column c;
\* piv lists the pivot columns.
RECURSIVE Rref(_, _, _, _, _)
Rref(M, r, c, p, piv) ==
    IF c > p \/ r > Len(M) THEN [m |-> M, piv |-> piv]
    ELSE LET i == PivotRow(M, r, c) IN
         IF M[i][c] = Zero THEN Rref(M, r, c + 1, p, piv)
         ELSE LET S == SwapRows(M, r, i)
                  prow == Arr([k \in 1..Len(S[r]) |-> QDiv(S[r][k], S[r][c])])
                  E == Arr([l \in 1..Len(S) |-> IF l = r THEN prow ELSE RowAxpy(S[l], S[l][c], prow)])
              IN  Rref(E, r + 1, c + 1, p, Append(piv, c))

PivotIndex(piv, c) == CHOOSE i \in 1..Len(piv) : piv[i] = c
IsFree(piv, c) == \A i \in 1..Len(piv) : piv[i] # c

\* The solution of the consistent system A x = b whose free components all equal t.
GeneralSolution(A, b, t) ==
    LET p == Len(A)
        R == Rref(Augment(A, b), 1, 1, p, <<>>)
    IN  Arr([c \in 1..p |->
            IF IsFree(R.piv, c) THEN t
            ELSE LET i == PivotIndex(R.piv, c)
                 IN  QSub(R.m[i][p + 1],
                          QSum(Arr([f \in 1..p |-> IF IsFree(R.piv, f)
                                                   THEN QMul(R.m[i][f], t) ELSE Zero])))])

\* The zero-pivot test of dgetrf gives the exact answer on A whatever the rounding:
\* every multiplier up to the zero pivot is a double, or A has a zero row, or two
\* equal rows (which every elimination step keeps equal, bit for bit, until one
\* cancels the other with the multiplier 1.0).
PivotTestExact(A) ==
    \/ Getrf(Augment(A, Arr([i \in 1..Len(A) |-> Zero])), 1, Len(A), TRUE).exact
    \/ \E i \in 1..Len(A) : \A c \in 1..Len(A) : A[i][c] = Zero
    \/ \E i, j \in 1..Len(A) : i < j /\ A[i] = A[j]

IsSingular(A) == Getrf(Augment(A, Arr([i \in 1..Len(A) |-> Zero])), 1, Len(A), TRUE).info # 0

\* What rounding can make of a solve: the pivot of a singular matrix comes out as
\* 0.0 ("zero") or as a number of the size of the rounding error ("tiny"), and then
\* the components the equations leave free come out as free.
ExactRounding == [pivot |-> "zero", free |-> Zero]
Roundings == {[pivot |-> pv, free |-> FromInt(t)] : pv \in {"zero", "tiny"}, t \in {0, 1}}
             \ {[pivot |-> "zero", free |-> One]}

\* (mutant) a solve that never raises: a singular system gets one of its solutions
LinalgSolveNoRaise(A, b, rd) ==
    LET p == Len(A)
        f == Getrf(Augment(A, b), 1, p, TRUE)
    IN  IF f.info = 0
        THEN [singular |-> FALSE, x |-> Getrs(f.lu, p, p, Arr([i \in 1..p |-> Zero]))]
        ELSE [singular |-> FALSE, x |-> GeneralSolution(A, b, rd.free)]

\* np.linalg.solve(A, b): LAPACK gesv.  It raises LinAlgError("Singular matrix")
\* when dgetrf reports a pivot that is exactly 0.0.  On a singular A whose
\* elimination rounds, the computed pivot is 0.0 or tiny, as the rounding rd of the
\* build has it; with a tiny pivot gesv returns a solution of the system.
LinalgSolve(A, b, rd) ==
    LET p == Len(A)
        f == Getrf(Augment(A, b), 1, p, TRUE)
    IN  IF f.info = 0
        THEN [singular |-> FALSE, x |-> Getrs(f.lu, p, p, Arr([i \in 1..p |-> Zero]))]
        ELSE IF PivotTestExact(A) \/ rd.pivot = "zero"
             THEN [singular |-> TRUE, x |-> <<>>]
             ELSE [singular |-> FALSE, x |-> GeneralSolution(A, b, rd.free)]

\* The roundings a build can show on the normal equations of X.
RoundingsOf(Xc) ==
    IF IsSingular(Gram(Xc)) /\ ~PivotTestExact(Gram(Xc)) THEN Roundings ELSE {ExactRounding}

\* scipy.linalg.lstsq(X, y) / np.linalg.pinv(X) @ y: the least squares solution of
\* least norm.  x0 solves the normal equations with its free components 0; the null
\* vectors of the free columns are added with the weights that minimise the norm.
Lstsq(Xc, yv) ==
    LET A == Gram(Xc)
        b == MomentVector(Xc, yv)
        p == Len(A)
        R == Rref(Augment(A, b), 1, 1, p, <<>>)
        x0 == GeneralSolution(A, b, Zero)
        free == SelectSeq([c \in 1..p |-> c], LAMBDA c : IsFree(R.piv, c))
        null == Arr([k \in 1..Len(free) |->
                    Arr([c \in 1..p |-> IF c = free[k] THEN One
                                        ELSE IF IsFree(R.piv, c) THEN Zero
                                        ELSE QSub(Zero, R.m[PivotIndex(R.piv, c)][free[k]])])])
        G == Arr([k \in 1..Len(free) |-> Arr([l \in 1..Len(free) |-> Dot(null[k], null[l])])])
        h == Arr([k \in 1..Len(free) |-> QSub(Zero, Dot(null[k], x0))])
        t == IF Len(free) = 0 THEN <<>>
             ELSE Getrs(Getrf(Augment(G, h), 1, Len(free), TRUE).lu, Len(free), Len(free),
                        Arr([k \in 1..Len(free) |-> Zero]))
    IN  Arr([c \in 1..p |->
                QAdd(x0[c], QSum(Arr([k \in 1..Len(free) |-> QMul(t[k], null[k][c])])))])

\* ---------------------------------------------------------------- scipy
\* (mutant) a correlation of 0 where the denominator is 0
PearsonrSquaredZeroGuard(x, yv) ==
    LET xm == Centered(x)
        ym == Centered(yv)
        r_num == Dot(xm, ym)
        den2 == QMul(SumOfSquares(xm), SumOfSquares(ym))
    IN  IF den2 = Zero THEN Num(Zero)
        ELSE Num(QMin(QDiv(QMul(r_num, r_num), den2), One))

\* pearsonr(x, y)[0] ** 2.  r = r_num / r_den is nan when either vector is
\* constant (0/0); otherwise r is clipped to [-1, 1].
PearsonrSquared(x, yv) ==
    LET xm == Centered(x)
        ym == Centered(yv)
        r_num == Dot(xm, ym)
        den2 == QMul(SumOfSquares(xm), SumOfSquares(ym))
    IN  IF den2 = Zero THEN NaN
        ELSE Num(QMin(QDiv(QMul(r_num, r_num), den2), One))

\* ---------------------------------------------------------- scikit-learn
\* (mutant) the total sum of squares taken about 0, not about the mean
R2ScoreUncentered(y_true, y_pred) ==
    LET numerator == SumOfSquares(Arr([i \in 1..Len(y_true) |-> QSub(y_true[i], y_pred[i])]))
        denominator == SumOfSquares(y_true)
    IN  IF denominator # Zero /\ numerator # Zero
        THEN Num(QSub(One, QDiv(numerator, denominator)))
        ELSE IF numerator # Zero THEN Num(Zero) ELSE Num(One)

\* r2_score(y_true, y_pred)
R2Score(y_true, y_pred) ==
    LET numerator == SumOfSquares(Arr([i \in 1..Len(y_true) |-> QSub(y_true[i], y_pred[i])]))
        denominator == SumOfSquares(Centered(y_true))
    IN  IF denominator # Zero /\ numerator # Zero
        THEN Num(QSub(One, QDiv(numerator, denominator)))
        ELSE IF numerator # Zero THEN Num(Zero) ELSE Num(One)

VARIABLES pc, X, y, X_with_const, coefs, r2, error, solve_called, rounding,
          loops, timeit_coefs, timeit_r2, lm_sm, sk_ols, score_sk

vars == <<pc, X, y, X_with_const, coefs, r2, error, solve_called, rounding,
          loops, timeit_coefs, timeit_r2, lm_sm, sk_ols, score_sk>>

\* ------------------------------------------------------------ datasets
\* What the dataset source can hand over.  Predictors are 0/1 indicators and
\* targets small counts: every data matrix and target vector within the bounds,
\* whether or not their lengths agree, and a list of larger datasets.
Levels == {0, 1}
Matrices(n, k) == [1..n -> [1..k -> Levels]]
Targets(m) == [1..m -> 0..MaxY]

\* four observations on the line y = 2 x
WorkedExample == [data |-> <<<<1>>, <<2>>, <<3>>, <<4>>>>, target |-> <<2, 4, 6, 8>>]
\* a line through three scattered points
Scattered == [data |-> <<<<0>>, <<1>>, <<2>>>>, target |-> <<0, 2, 1>>]
\* a target with zero sample covariance with the predictor
Uncorrelated == [data |-> <<<<0>>, <<1>>, <<2>>>>, target |-> <<1, 0, 1>>]
\* two predictors on four observations
TwoPredictors == [data |-> <<<<0, 0>>, <<1, 0>>, <<0, 1>>, <<1, 1>>>>, target |-> <<0, 1, 1, 3>>]
\* as many observations as columns
Square == [data |-> <<<<0, 0>>, <<1, 0>>, <<0, 1>>>>, target |-> <<2, 0, 1>>]
\* the same predictor twice
Duplicated == [data |-> <<<<0, 0>>, <<1, 1>>, <<0, 0>>>>, target |-> <<1, 0, 1>>]
\* the second predictor is 1 minus the first
Complementary == [data |-> <<<<0, 1>>, <<0, 1>>, <<1, 0>>>>, target |-> <<0, 0, 1>>]
\* a design matrix of shape (10, 3) with a target of length 9
TenByThree ==
    [data |-> <<<<0, 0>>, <<1, 0>>, <<0, 1>>, <<1, 1>>, <<0, 0>>,
                <<1, 0>>, <<0, 1>>, <<1, 1>>, <<0, 0>>, <<1, 0>>>>,
     target |-> <<0, 1, 2, 0, 1, 2, 0, 1, 2>>]
Scenarios == {WorkedExample, Scattered, Uncorrelated, TwoPredictors, Square, Duplicated,
              Complementary, TenByThree}

Datasets ==
    UNION {{[data |-> d, target |-> t] : d \in Matrices(n, k), t \in Targets(m)} :
              n \in 1..MaxRows, m \in 1..MaxRows, k \in 0..MaxPredictors}
    \cup Scenarios

\* ------------------------------------------------------- the fit (cell 4)
ValueError == "ValueError"
LinAlgError == "LinAlgError"

\* (mutant) a fit that pairs the rows of X and the entries of y as far as both go
NormalEquationFitTruncating(Xc, yv, rd) ==
    LET n == IF Len(Xc) < Len(yv) THEN Len(Xc) ELSE Len(yv)
        Xt == SubSeq(Xc, 1, n)
        yt == SubSeq(yv, 1, n)
        s == LinalgSolve(Gram(Xt), MomentVector(Xt, yt), rd)
    IN  IF s.singular
        THEN [error |-> LinAlgError, solved |-> TRUE, coefs |-> NoVector, r2 |-> Unset]
        ELSE [error |-> "none", solved |-> TRUE, coefs |-> Vector(s.x),
              r2 |-> PearsonrSquared(MatVec(Xt, s.x), yt)]

\* coefs = np.linalg.solve(X.T @ X, X.T @ y); r2 = pearsonr(X @ coefs, y)[0] ** 2
\* X.T @ X is formed first; X.T @ y raises ValueError when the lengths differ,
\* while the arguments of solve are still being evaluated.
NormalEquationFit(Xc, yv, rd) ==
    IF Len(Xc) # Len(yv)
    THEN [error |-> ValueError, solved |-> FALSE, coefs |-> NoVector, r2 |-> Unset]
    ELSE LET s == LinalgSolve(Gram(Xc), MomentVector(Xc, yv), rd) IN
         IF s.singular
         THEN [error |-> LinAlgError, solved |-> TRUE, coefs |-> NoVector, r2 |-> Unset]
         ELSE [error |-> "none", solved |-> TRUE, coefs |-> Vector(s.x),
               r2 |-> PearsonrSquared(MatVec(Xc, s.x), yv)]

FitRoundings(Xc, yv) == IF Len(Xc) = Len(yv) THEN RoundingsOf(Xc) ELSE {ExactRounding}

\* LinearRegression(fit_intercept=False).fit(X, y).coef_
SkFit(Xc, yv) == Vector(Lstsq(Xc, yv))
\* lm_sk.score(X, y)
SkScore(coef, Xc, yv) == R2Score(yv, MatVec(Xc, coef.v))
\* sm.OLS(y, X).fit().params
SmFit(Xc, yv) == Vector(Lstsq(Xc, yv))

\* ------------------------------------------------------------ notebook
Init ==
    /\ pc = "dataset"
    /\ X = <<>>
    /\ y = <<>>
    /\ X_with_const = <<>>
    /\ coefs = NoVector
    /\ r2 = Unset
    /\ error = "none"
    /\ solve_called = FALSE
    /\ rounding = ExactRounding
    /\ loops = 0
    /\ timeit_coefs = NoVector
    /\ timeit_r2 = Unset
    /\ lm_sm = NoVector
    /\ sk_ols = [constructed |-> FALSE, fit_intercept |-> TRUE, copy_X |-> TRUE, coef_ |-> NoVector]
    /\ score_sk = Unset

\* cell 3: load the dataset and add the column of ones
DatasetCell ==
    /\ pc = "dataset"
    /\ \E d \in Datasets :
          /\ X' = d.data
          /\ y' = AsFloats(d.target)
          /\ X_with_const' = HstackOnes(d.data)
    /\ pc' = "normal_eq"
    /\ UNCHANGED <<coefs, r2, error, solve_called, rounding, loops, timeit_coefs,
                   timeit_r2, lm_sm, sk_ols, score_sk>>

\* cell 4: the fit by the normal equations; an exception ends the run
NormalEquationCell ==
    /\ pc = "normal_eq"
    /\ \E rd \in FitRoundings(X_with_const, y) :
          LET res == NormalEquationFit(X_with_const, y, rd) IN
          /\ rounding' = rd
          /\ solve_called' = res.solved
          /\ IF res.error = "none"
             THEN /\ coefs' = res.coefs
                  /\ r2' = res.r2
                  /\ pc' = "timeit_normal_eq"
                  /\ UNCHANGED error
             ELSE /\ error' = res.error
                  /\ pc' = "aborted"
                  /\ UNCHANGED <<coefs, r2>>
    /\ UNCHANGED <<X, y, X_with_const, loops, timeit_coefs, timeit_r2, lm_sm, sk_ols, score_sk>>

\* (mutant) a timed fit that centres y in place
TimeitNormalEquationInPlace ==
    /\ pc = "timeit_normal_eq"
    /\ loops < MaxTimeitLoops
    /\ LET res == NormalEquationFit(X_with_const, y, rounding) IN
          /\ timeit_coefs' = res.coefs
          /\ timeit_r2' = res.r2
    /\ y' = Centered(y)
    /\ loops' = loops + 1
    /\ UNCHANGED <<pc, X, X_with_const, coefs, r2, error, solve_called, rounding,
                   lm_sm, sk_ols, score_sk>>

\* cell 5: %%timeit repeats the fit; its coefs and r2 are names of the timed
\* statement's own scope
TimeitNormalEquation ==
    /\ pc = "timeit_normal_eq"
    /\ loops < MaxTimeitLoops
    /\ LET res == NormalEquationFit(X_with_const, y, rounding) IN
          /\ timeit_coefs' = res.coefs
          /\ timeit_r2' = res.r2
    /\ loops' = loops + 1
    /\ UNCHANGED <<pc, X, y, X_with_const, coefs, r2, error, solve_called, rounding,
                   lm_sm, sk_ols, score_sk>>

TimeitNormalEquationEnd ==
    /\ pc = "timeit_normal_eq"
    /\ loops = MaxTimeitLoops
    /\ pc' = "statsmodels"
    /\ loops' = 0
    /\ timeit_coefs' = NoVector
    /\ timeit_r2' = Unset
    /\ UNCHANGED <<X, y, X_with_const, coefs, r2, error, solve_called, rounding,
                   lm_sm, sk_ols, score_sk>>

\* cell 6: lm_sm = sm.OLS(y, X_with_const).fit()
StatsmodelsCell ==
    /\ pc = "statsmodels"
    /\ lm_sm' = SmFit(X_with_const, y)
    /\ pc' = "timeit_statsmodels"
    /\ UNCHANGED <<X, y, X_with_const, coefs, r2, error, solve_called, rounding, loops,
                   timeit_coefs, timeit_r2, sk_ols, score_sk>>

\* cell 7: %%timeit of the statsmodels fit (its lm_sm is local)
TimeitStatsmodels ==
    /\ pc = "timeit_statsmodels"
    /\ loops < MaxTimeitLoops
    /\ loops' = loops + 1
    /\ UNCHANGED <<pc, X, y, X_with_const, coefs, r2, error, solve_called, rounding,
                   timeit_coefs, timeit_r2, lm_sm, sk_ols, score_sk>>

TimeitStatsmodelsEnd ==
    /\ pc = "timeit_statsmodels"
    /\ loops = MaxTimeitLoops
    /\ pc' = "sk_ols"
    /\ loops' = 0
    /\ UNCHANGED <<X, y, X_with_const, coefs, r2, error, solve_called, rounding,
                   timeit_coefs, timeit_r2, lm_sm, sk_ols, score_sk>>

\* cell 8: sk_ols = LinearRegression(fit_intercept=False)
SkOlsCell ==
    /\ pc = "sk_ols"
    /\ sk_ols' = [constructed |-> TRUE, fit_intercept |-> FALSE, copy_X |-> TRUE,
                  coef_ |-> NoVector]
    /\ pc' = "sklearn"
    /\ UNCHANGED <<X, y, X_with_const, coefs, r2, error, solve_called, rounding, loops,
                   timeit_coefs, timeit_r2, lm_sm, score_sk>>

\* (mutant) an estimator that centres y in place while fitting
ScikitLearnCellInPlace ==
    /\ pc = "sklearn"
    /\ sk_ols' = [sk_ols EXCEPT !.coef_ = SkFit(X_with_const, y)]
    /\ score_sk' = SkScore(sk_ols'.coef_, X_with_const, y)
    /\ y' = Centered(y)
    /\ pc' = "timeit_sklearn"
    /\ UNCHANGED <<X, X_with_const, coefs, r2, error, solve_called, rounding, loops,
                   timeit_coefs, timeit_r2, lm_sm>>

\* cell 9: lm_sk = sk_ols.fit(X_with_const, y); score_sk = lm_sk.score(X_with_const, y)
\* (fit returns the estimator itself: lm_sk is sk_ols)
ScikitLearnCell ==
    /\ pc = "sklearn"
    /\ sk_ols' = [sk_ols EXCEPT !.coef_ = SkFit(X_with_const, y)]
    /\ score_sk' = SkScore(sk_ols'.coef_, X_with_const, y)
    /\ pc' = "timeit_sklearn"
    /\ UNCHANGED <<X, y, X_with_const, coefs, r2, error, solve_called, rounding, loops,
                   timeit_coefs, timeit_r2, lm_sm>>

\* cell 10: %%timeit of fit and score; sk_ols is the notebook's estimator, refitted
\* in place, and score_sk is local
TimeitScikitLearn ==
    /\ pc = "timeit_sklearn"
    /\ loops < MaxTimeitLoops
    /\ sk_ols' = [sk_ols EXCEPT !.coef_ = SkFit(X_with_const, y)]
    /\ loops' = loops + 1
    /\ UNCHANGED <<pc, X, y, X_with_const, coefs, r2, error, solve_called, rounding,
                   timeit_coefs, timeit_r2, lm_sm, score_sk>>

TimeitScikitLearnEnd ==
    /\ pc = "timeit_sklearn"
    /\ loops = MaxTimeitLoops
    /\ pc' = "done"
    /\ loops' = 0
    /\ UNCHANGED <<X, y, X_with_const, coefs, r2, error, solve_called, rounding,
                   timeit_coefs, timeit_r2, lm_sm, sk_ols, score_sk>>

Next ==
    \/ DatasetCell
    \/ NormalEquationCell
    \/ TimeitNormalEquation
    \/ TimeitNormalEquationEnd
    \/ StatsmodelsCell
    \/ TimeitStatsmodels
    \/ TimeitStatsmodelsEnd
    \/ SkOlsCell
    \/ ScikitLearnCell
    \/ TimeitScikitLearn
    \/ TimeitScikitLearnEnd

Spec == Init /\ [][Next]_vars

\* ------------------------------------------------- what the claims speak of
\* cell 4 has run (to its end or to its exception)
Ran == pc \notin {"dataset", "normal_eq"}
\* cell 4 returned: coefs and r2 are bound
Returned == coefs.kind = "vec"
\* cell 4 has just returned
JustReturned == pc = "timeit_normal_eq" /\ loops = 0
SameLength == Len(X_with_const) = Len(y)

\* The determinant, by expansion along the first row.
Minor(A, c) ==
    Arr([i \in 1..(Len(A) - 1) |->
            Arr([j \in 1..(Len(A) - 1) |-> A[i + 1][IF j < c THEN j ELSE j + 1]])])

RECURSIVE Det(_)
Det(A) ==
    IF Len(A) = 1 THEN A[1][1]
    ELSE QSum(Arr([c \in 1..Len(A) |->
                      QMul(QMul(FromInt(IF c % 2 = 1 THEN 1 ELSE -1), A[1][c]),
                           Det(Minor(A, c)))]))

\* X.T @ X is singular / X has full column rank
SingularGram == Det(Gram(X_with_const)) = Zero
FullColumnRank == ~SingularGram
IdenticalColumns ==
    \E i, j \in 1..NumCols(X_with_const) :
        i < j /\ Column(X_with_const, i) = Column(X_with_const, j)
MoreColumnsThanRows == NumCols(X_with_const) > Len(X_with_const)

IsConstant(v) == \A i \in 1..Len(v) : v[i] = v[1]
\* the sum of squared residuals of the coefficient vector b
SSR(b) ==
    SumOfSquares(Arr([i \in 1..Len(y) |-> QSub(Dot(X_with_const[i], b), y[i])]))
\* sample covariance (times n) of y and column j
CovWithColumn(j) == Dot(Centered(Column(X_with_const, j)), Centered(y))
UncorrelatedWithColumns ==
    \A j \in 1..NumCols(X_with_const) : CovWithColumn(j) = Zero

\* Coefficient vectors to compare with: a grid, and the neighbours of coefs.
GridValues == {FromInt(-1), Zero, <<1, 2>>, One, FromInt(2)}
GridVectors(p) == [1..p -> GridValues]
Steps == {<<-1, 1>>, <<-1, 2>>, <<1, 2>>, <<1, 1>>}
Neighbours(b) ==
    {Arr([c \in 1..Len(b) |-> IF c = i THEN QAdd(b[c], d) ELSE b[c]]) :
        i \in 1..Len(b), d \in Steps}

\* ---------------------------------------------------------------- claims

\* C1: on a design matrix of full column rank, the coefficient vector cell 4
\* returns has the least sum of squared residuals: no vector of the grid and no
\* neighbour of it has a smaller one.
C1_MinimisesSSR ==
    (JustReturned /\ FullColumnRank) =>
        \A b \in GridVectors(NumCols(X_with_const)) \cup Neighbours(coefs.v) :
            QLeq(SSR(coefs.v), SSR(b))

C1_Witness ==
    /\ JustReturned /\ FullColumnRank
    /\ NumCols(X_with_const) = 3 /\ Len(X_with_const) = 4
    /\ SSR(coefs.v) # Zero
    /\ coefs.v[2] # Zero

C3_DimensionMismatch ==
    (Ran /\ ~SameLength) =>
        /\ error = ValueError
        /\ ~solve_called
        /\ coefs = NoVector /\ r2 = Unset
        /\ pc = "aborted"

C3_Witness ==
    /\ pc = "aborted" /\ error = ValueError
    /\ Len(X_with_const) = 10 /\ NumCols(X_with_const) = 3 /\ Len(y) = 9

C10_InputsImmutable ==
    [][pc # "dataset" => (X_with_const' = X_with_const /\ y' = y)]_vars

C10_Witness ==
    /\ pc = "done" /\ Len(X_with_const) >= 2
    /\ lm_sm.kind = "vec" /\ sk_ols.coef_.kind = "vec"

====
